---- MODULE Spec2Model ----
(***************************************************************************)
(* A model of ComfyUI-DJZ-ZeroPrompt (DJZ_ZeroPrompt_V2.py): profile       *)
(* discovery and loading, the xxh32 coordinate hasher, prompt assembly,    *)
(* the combination counter and the DJZZeroPromptV2 node with its class     *)
(* level profile cache, called from one thread or from several; and the    *)
(* generator of DJZ_ZeroPrompt_V1.py with its built-in vocabulary.         *)
(*                                                                         *)
(* Representation.                                                         *)
(*  - A Python int that may exceed 2^31-1 (seed, prompt_idx, a digest) is  *)
(*    a record [hi, lo] of two 16-bit limbs, value hi * 2^16 + lo.         *)
(*  - A Python str is a sequence of atoms.  The atoms "{", "}", "[", "]"   *)
(*    are those one-character strings; every other atom is a run of text   *)
(*    holding none of these four characters.                               *)
(*  - A dict is a sequence of <<key, value>> pairs in insertion order.     *)
(***************************************************************************)
EXTENDS Integers, Sequences, FiniteSets, TLC

VARIABLES
    files,           \* profiles directory: file name -> the file's text, "absent", "dir"
    mtime,           \* st_mtime of every file of the directory
    clock,           \* the file system's clock (number of writes so far)
    dirExists,       \* profiles_dir.exists()
    _profile_cache,  \* DJZZeroPromptV2._profile_cache: name -> loaded dict
    nextId,          \* id() the next dict built by json.load will have
    loadedAt,        \* history: st_mtime of a cached profile's file when it was read
    ret,             \* outcome of the last call
    memo,            \* an earlier generate_prompt call, kept for comparison
    calls            \* thread -> the generate call it is in, and where

vars ==
    <<files, mtime, clock, dirExists, _profile_cache, nextId, loadedAt, ret, memo,
      calls>>

----------------------------------------------------------------------------
(* Unsigned 32-bit arithmetic on [hi, lo] limbs                            *)

W16 == 65536

U32(h, l) == [hi |-> h, lo |-> l]

FromNat(n) == U32(n \div W16, n % W16)

\* seed & 0xFFFFFFFF
Mask32(a) == U32(a.hi % W16, a.lo % W16)

AddU32(a, b) ==
    LET s == a.lo + b.lo
    IN  U32((a.hi + b.hi + s \div W16) % W16, s % W16)

\* the full product of two 16-bit numbers
Mul16(x, y) ==
    LET p0 == (x % 256) * y
        p1 == (x \div 256) * y
        s  == p0 + (p1 % 256) * 256
    IN  U32(s \div W16 + p1 \div 256, s % W16)

MulU32(a, b) ==
    LET ll == Mul16(a.lo, b.lo)
    IN  U32((ll.hi + Mul16(a.hi, b.lo).lo + Mul16(a.lo, b.hi).lo) % W16, ll.lo)

RECURSIVE Pow2(_)
Pow2(n) == IF n = 0 THEN 1 ELSE 2 * Pow2(n - 1)

RECURSIVE Xor16(_, _, _)
Xor16(x, y, bits) ==
    IF bits = 0 THEN 0
    ELSE ((x + y) % 2) + 2 * Xor16(x \div 2, y \div 2, bits - 1)

XorU32(a, b) == U32(Xor16(a.hi, b.hi, 16), Xor16(a.lo, b.lo, 16))

\* x >> r, 0 < r <= 16
ShrU32(a, r) ==
    IF r = 16 THEN U32(0, a.hi)
    ELSE U32(a.hi \div Pow2(r),
             a.lo \div Pow2(r) + (a.hi % Pow2(r)) * Pow2(16 - r))

\* XXH_rotl32(x, r), 16 <= r < 32
RotlU32(a, r) ==
    LET k == r - 16
        h == a.lo
        l == a.hi
    IN  IF k = 0 THEN U32(h, l)
        ELSE U32(((h * Pow2(k)) % W16) + (l \div Pow2(16 - k)),
                 ((l * Pow2(k)) % W16) + (h \div Pow2(16 - k)))

----------------------------------------------------------------------------
(* xxhash.xxh32 on inputs shorter than 16 bytes whose length is a multiple *)
(* of four (the only inputs prompt_hash gives it)                          *)

PRIME32_2 == U32(34283, 51831)   \* 0x85EBCA77
PRIME32_3 == U32(49842, 44605)   \* 0xC2B2AE3D
PRIME32_4 == U32(10196, 60207)   \* 0x27D4EB2F
PRIME32_5 == U32(5718, 26545)    \* 0x165667B1

\* little-endian 32-bit word at byte offset p (0-based) of a byte sequence
ReadLE32(bytes, p) ==
    U32(bytes[p + 3] + 256 * bytes[p + 4], bytes[p + 1] + 256 * bytes[p + 2])

RECURSIVE XXH32_words(_, _, _)
XXH32_words(h, bytes, p) ==
    IF p + 4 > Len(bytes) THEN h
    ELSE XXH32_words(
            MulU32(RotlU32(AddU32(h, MulU32(ReadLE32(bytes, p), PRIME32_3)), 17),
                   PRIME32_4),
            bytes, p + 4)

\* h ^= h >> r
XorShift(h, r) == XorU32(h, ShrU32(h, r))

XXH32_avalanche(h) ==
    XorShift(MulU32(XorShift(MulU32(XorShift(h, 15), PRIME32_2), 13), PRIME32_3), 16)

XXH32(seed, bytes) ==
    XXH32_avalanche(
        XXH32_words(AddU32(AddU32(seed, PRIME32_5), FromNat(Len(bytes))), bytes, 0))

\* struct.pack('<i', n): four bytes, little-endian
Pack_i(n) == <<n.lo % 256, n.lo \div 256, n.hi % 256, n.hi \div 256>>

RECURSIVE PackAll(_)
PackAll(coords) ==
    IF Len(coords) = 0 THEN <<>> ELSE Pack_i(Head(coords)) \o PackAll(Tail(coords))

\* 0 and 42
Seeds == {FromNat(0), FromNat(42)}

\* 0, 2^31 - 1 and 2^31
Indices == {FromNat(0), U32(32767, 65535), U32(32768, 0)}

\* the second coordinate: 0 for the template, position + 1 for a slot
Coordinates == 0..8

\* the largest of the consecutive prompt indices 0, 1, 2, ...
MaxIndex == 24

\* seeds and indices of the calls that compare two generators:
\* 0, 42, 2^31 and 2^32 - 1; 0..MaxIndex, 2^31 - 1 and 2^31
WideSeeds == Seeds \cup {U32(32768, 0), U32(65535, 65535)}
WideIndices == Indices \cup {FromNat(n) : n \in 0..MaxIndex}

\* the digests of the inputs above, tabulated once (@@ makes the table
\* explicit)
XXH32_digests ==
    [k \in {<<s, PackAll(<<i, FromNat(c)>>)>> :
                s \in WideSeeds, i \in WideIndices, c \in Coordinates}
        |-> XXH32(k[1], k[2])]
    @@ <<>>

xxh32_intdigest(seed, bytes) == XXH32_digests[<<seed, bytes>>]

----------------------------------------------------------------------------
(* Python values: outcomes, strings, dicts                                 *)

\* a call either returns a value or raises: exc names the exception class
Return(v) == [exc |-> "none", val |-> v]
Raise(e)  == [exc |-> e, val |-> <<>>]

\* an exception of the call r propagates; its value goes on to Rest
Then(r, Rest(_)) == IF r.exc # "none" THEN r ELSE Rest(r.val)

Braces == {"{", "}", "[", "]"}

\* the canonical atom sequence of a string: adjacent runs of text are one run
RECURSIVE Normalize(_)
Normalize(s) ==
    IF Len(s) < 2 THEN s
    ELSE IF s[1] \notin Braces /\ s[2] \notin Braces
         THEN Normalize(<<s[1] \o s[2]>> \o SubSeq(s, 3, Len(s)))
         ELSE <<s[1]>> \o Normalize(Tail(s))

\* s1 + s2
Concat(s1, s2) == Normalize(s1 \o s2)

\* dict: a sequence of <<key, value>> pairs, in insertion order
Keys(d) == [i \in 1..Len(d) |-> d[i][1]]

HasKey(d, k) == \E i \in 1..Len(d) : d[i][1] = k

DictGet(d, k, default) ==
    IF HasKey(d, k) THEN d[CHOOSE i \in 1..Len(d) : d[i][1] = k][2] ELSE default

\* d[k] = v: a present key keeps its position
DictSet(d, k, v) ==
    IF HasKey(d, k) THEN [i \in 1..Len(d) |-> IF d[i][1] = k THEN <<k, v>> ELSE d[i]]
    ELSE Append(d, <<k, v>>)

\* str.format(**kwargs) with no positional arguments.  A text atom between
\* "{" and "}" is a plain field name (no '.', '!', ':' and not a number).
RECURSIVE FormatFrom(_, _, _, _)
FormatFrom(t, p, kwargs, acc) ==
    IF p > Len(t) THEN Return(Normalize(acc))
    ELSE IF t[p] = "{" THEN
        IF p = Len(t) THEN Raise("ValueError")                 \* Single '{'
        ELSE IF t[p + 1] = "{" THEN FormatFrom(t, p + 2, kwargs, Append(acc, "{"))
        ELSE IF t[p + 1] = "}" THEN Raise("IndexError")        \* "{}": args[0]
        ELSE IF p + 2 > Len(t) \/ t[p + 2] # "}" \/ t[p + 1] \in Braces
             THEN Raise("ValueError")                          \* no plain field
        ELSE IF HasKey(kwargs, t[p + 1])
             THEN FormatFrom(t, p + 3, kwargs, acc \o DictGet(kwargs, t[p + 1], <<>>))
             ELSE Raise("KeyError")
    ELSE IF t[p] = "}" THEN
        IF p < Len(t) /\ t[p + 1] = "}"
        THEN FormatFrom(t, p + 2, kwargs, Append(acc, "}"))
        ELSE Raise("ValueError")                               \* Single '}'
    ELSE FormatFrom(t, p + 1, kwargs, Append(acc, t[p]))

Format(t, kwargs) == FormatFrom(t, 1, kwargs, <<>>)

\* s.replace("{" + key + "}", new): every non-overlapping occurrence, left to right
RECURSIVE ReplaceField(_, _, _)
ReplaceField(s, key, new) ==
    IF Len(s) = 0 THEN s
    ELSE IF Len(s) >= 3 /\ s[1] = "{" /\ s[2] = key /\ s[3] = "}"
         THEN new \o ReplaceField(SubSeq(s, 4, Len(s)), key, new)
         ELSE <<s[1]>> \o ReplaceField(Tail(s), key, new)

----------------------------------------------------------------------------
(* The profiles directory and the JSON documents in it                     *)

NoFile  == [kind |-> "absent"]
DirNode == [kind |-> "dir"]

\* a file whose text is not JSON
BadJson == [kind |-> "invalid"]

\* a file whose JSON value is null, a number or a boolean
ScalarJson == [kind |-> "scalar"]

\* a file whose JSON value is an array holding neither "templates" nor "pools"
ArrayJson == [kind |-> "array"]

\* a JSON object; keys are the ones among 'templates' and 'pools' it holds
Object(ks, ts, ps) == [kind |-> "object", keys |-> ks, templates |-> ts, pools |-> ps]

Subjects == << <<"a cat">>, <<"a dog">>, <<"a fox">> >>
Styles   == << <<"oil">>, <<"ink">>, <<"pixel art">>, <<"photo">> >>
Knights  == << <<"a knight">>, <<"a wizard">> >>

BaseTemplates ==
    << <<"{", "subject", "}", " in ", "{", "style", "}">>,
       <<"{", "style", "}", " of ", "{", "subject", "}">> >>

\* 2 templates, pools of sizes 3 and 4
BaseProfile ==
    Object({"templates", "pools"}, BaseTemplates,
           << <<"subject", Subjects>>, <<"style", Styles>> >>)

\* every template references the slot foo, which no pool declares
AltProfile ==
    Object({"templates", "pools"},
           << <<"{", "subject", "}", " with ", "{", "foo", "}">> >>,
           << <<"subject", Knights>> >>)

NoTemplatesProfile == Object({"pools"}, <<>>, << <<"subject", Subjects>> >>)
NoPoolsProfile     == Object({"templates"}, BaseTemplates, <<>>)
EmptyTemplatesProfile ==
    Object({"templates", "pools"}, <<>>, << <<"subject", Subjects>> >>)
EmptyPoolProfile ==
    Object({"templates", "pools"}, BaseTemplates,
           << <<"subject", Subjects>>, <<"style", <<>> >> >>)
EmptyPoolsProfile ==
    Object({"templates", "pools"}, << <<"a plain prompt">> >>, <<>>)

\* The state holds a file's text by name; Document is what the text holds.
Sources ==
    { "base", "alt", "no_templates", "no_pools", "empty_templates",
      "empty_pool", "empty_pools", "bad_json", "scalar", "array" }

Document(text) ==
    CASE text = "base"            -> BaseProfile
      [] text = "alt"             -> AltProfile
      [] text = "no_templates"    -> NoTemplatesProfile
      [] text = "no_pools"        -> NoPoolsProfile
      [] text = "empty_templates" -> EmptyTemplatesProfile
      [] text = "empty_pool"      -> EmptyPoolProfile
      [] text = "empty_pools"     -> EmptyPoolsProfile
      [] text = "bad_json"        -> BadJson
      [] text = "scalar"          -> ScalarJson
      [] text = "array"           -> ArrayJson
      [] text = "dir"             -> DirNode
      [] OTHER                    -> NoFile

----------------------------------------------------------------------------
(* PROFILE MANAGEMENT                                                      *)

\* the file names of the profiles directory
AllNames == {"default.json", "apple.json", "zebra.json", "Zed.json", "notes.txt"}

\* the code points of a file name
CodePoints(name) ==
    CASE name = "default.json" -> <<100, 101, 102, 97, 117, 108, 116, 46, 106, 115, 111, 110>>
      [] name = "apple.json"   -> <<97, 112, 112, 108, 101, 46, 106, 115, 111, 110>>
      [] name = "zebra.json"   -> <<122, 101, 98, 114, 97, 46, 106, 115, 111, 110>>
      [] name = "Zed.json"     -> <<90, 101, 100, 46, 106, 115, 111, 110>>
      [] name = "notes.txt"    -> <<110, 111, 116, 101, 115, 46, 116, 120, 116>>

\* a < b on str: by code point, a proper prefix first
RECURSIVE SeqLess(_, _)
SeqLess(a, b) ==
    IF Len(b) = 0 THEN FALSE
    ELSE IF Len(a) = 0 THEN TRUE
    ELSE IF Head(a) # Head(b) THEN Head(a) < Head(b)
    ELSE SeqLess(Tail(a), Tail(b))

StrLess(a, b) == SeqLess(CodePoints(a), CodePoints(b))

\* the pattern "*.json"
MatchesJson(name) ==
    LET c == CodePoints(name)
        n == Len(c)
    IN  n >= 5 /\ SubSeq(c, n - 4, n) = <<46, 106, 115, 111, 110>>

\* f.is_file()
IsFile(dir, name) == dir[name] \notin {"absent", "dir"}

\* sorted(names)
RECURSIVE InsertSorted(_, _)
InsertSorted(x, sorted) ==
    IF Len(sorted) = 0 THEN <<x>>
    ELSE IF StrLess(x, Head(sorted)) THEN <<x>> \o sorted
    ELSE <<Head(sorted)>> \o InsertSorted(x, Tail(sorted))

RECURSIVE Sorted(_)
Sorted(names) ==
    IF Len(names) = 0 THEN <<>> ELSE InsertSorted(Head(names), Sorted(Tail(names)))

\* list.remove(x): the list without its first x
RECURSIVE Remove(_, _)
Remove(list, x) ==
    IF Len(list) = 0 THEN list
    ELSE IF Head(list) = x THEN Tail(list)
    ELSE <<Head(list)>> \o Remove(Tail(list), x)

Contains(list, x) == \E i \in 1..Len(list) : list[i] = x

\* DefaultFirst without lines 54-56: default.json stays where sorted() put it
DefaultFirst_unmoved(profiles) ==
    IF Len(profiles) > 0 THEN profiles ELSE <<"default.json">>

\* DefaultFirst without the fallback of line 58
DefaultFirst_no_fallback(profiles) ==
    IF Contains(profiles, "default.json")
    THEN <<"default.json">> \o Remove(profiles, "default.json")
    ELSE profiles

\* the lines after sorted(): default.json first, ["default.json"] for no profile
DefaultFirst(profiles) ==
    LET moved == IF Contains(profiles, "default.json")
                 THEN <<"default.json">> \o Remove(profiles, "default.json")
                 ELSE profiles
    IN  IF Len(moved) > 0 THEN moved ELSE <<"default.json">>

\* discover_profiles(); globbed is profiles_dir.glob("*.json") in the order the
\* file system lists it
discover_profiles(exists, dir, globbed) ==
    IF ~exists THEN <<"default.json">>
    ELSE DefaultFirst(Sorted(SelectSeq(globbed, LAMBDA n : IsFile(dir, n))))

\* the orders in which the file system may list the entries matching "*.json"
GlobOrders(dir) ==
    LET found == {n \in AllNames : dir[n] # "absent" /\ MatchesJson(n)}
        k     == Cardinality(found)
    IN  {o \in [1..k -> found] : \A i, j \in 1..k : i # j => o[i] # o[j]}

\* load_profile(profile_name), reading the directory dir
load_profile(dir, profile_name) ==
    LET f == Document(dir[profile_name])
    IN  IF f.kind = "absent" THEN Raise("FileNotFoundError")
        ELSE IF f.kind = "dir" THEN Raise("IsADirectoryError")          \* open()
        ELSE IF f.kind = "invalid" THEN Raise("JSONDecodeError")        \* json.load
        ELSE IF f.kind = "scalar" THEN Raise("TypeError")               \* 'templates' not in profile
        ELSE IF f.kind = "array" THEN Raise("ValueError")
        ELSE IF "templates" \notin f.keys THEN Raise("ValueError")
        ELSE IF "pools" \notin f.keys THEN Raise("ValueError")
        ELSE Return(f)

\* str(e) of the exception load_profile raises
load_error_text(dir, profile_name) ==
    LET f == Document(dir[profile_name])
    IN  IF f.kind = "absent" THEN "Profile not found: " \o profile_name
        ELSE IF f.kind = "dir" THEN "[Errno 21] Is a directory"
        ELSE IF f.kind = "invalid" THEN "Expecting value: line 1 column 1 (char 0)"
        ELSE IF f.kind = "scalar" THEN "argument of type 'NoneType' is not iterable"
        ELSE IF f.kind = "array" \/ "templates" \notin f.keys
             THEN "Profile " \o profile_name \o " missing 'templates' field"
        ELSE "Profile " \o profile_name \o " missing 'pools' field"

\* profile.get('templates', []) and profile.get('pools', {})
GetTemplates(profile) == IF "templates" \in profile.keys THEN profile.templates ELSE <<>>
GetPools(profile)     == IF "pools" \in profile.keys THEN profile.pools ELSE <<>>

RECURSIVE TimesPools(_, _, _)
TimesPools(total, pools, i) ==
    IF i > Len(pools) THEN total
    ELSE TimesPools(total * Len(pools[i][2]), pools, i + 1)

\* calculate_combinations without the factor len(templates)
calculate_combinations_pools_only(profile) ==
    TimesPools(1, GetPools(profile), 1)

calculate_combinations(profile) ==
    TimesPools(Len(GetTemplates(profile)), GetPools(profile), 1)

----------------------------------------------------------------------------
(* CORE HASH FUNCTIONS                                                     *)

\* struct.pack's 'i' takes -2^31 <= n <= 2^31 - 1 and raises struct.error otherwise
InIntRange(n) == n.hi < 32768

\* prompt_hash with the seed of the previous call left in a module global
prompt_hash_stale_seed(seed, coords) ==
    IF \E i \in 1..Len(coords) : ~InIntRange(coords[i])
    THEN Raise("struct.error")
    ELSE Return(xxh32_intdigest(Mask32(ret.seed), PackAll(coords)))

prompt_hash(seed, coords) ==
    IF \E i \in 1..Len(coords) : ~InIntRange(coords[i])
    THEN Raise("struct.error")
    ELSE Return(xxh32_intdigest(Mask32(seed), PackAll(coords)))

\* hash_to_index with the remainder taken over pool_size + 1
hash_to_index_inclusive(h, pool_size) ==
    Return((((h.hi % (pool_size + 1)) * (W16 % (pool_size + 1)))
            + (h.lo % (pool_size + 1))) % (pool_size + 1))

\* h % pool_size
hash_to_index(h, pool_size) ==
    IF pool_size = 0 THEN Raise("ZeroDivisionError")
    ELSE Return((((h.hi % pool_size) * (W16 % pool_size)) + (h.lo % pool_size))
                % pool_size)

----------------------------------------------------------------------------
(* PROMPT GENERATION                                                       *)

\* list[i]: a negative i counts from the end, any other i outside raises
Subscript(list, i) ==
    IF 0 <= i /\ i < Len(list) THEN Return(list[i + 1])
    ELSE IF -Len(list) <= i /\ i < 0 THEN Return(list[Len(list) + i + 1])
    ELSE Raise("IndexError")

\* pool[hash_to_index(prompt_hash(seed, prompt_idx, coord), len(pool))]
Select(seed, prompt_idx, coord, pool) ==
    Then(prompt_hash(seed, <<prompt_idx, FromNat(coord)>>),
         LAMBDA h : Then(hash_to_index(h, Len(pool)),
                         LAMBDA at : Subscript(pool, at)))

\* Components with each index taken modulo the size of the pool before
RECURSIVE Components_previous_size(_, _, _, _, _)
Components_previous_size(seed, prompt_idx, pools, i, components) ==
    IF i > Len(pools) THEN Return(components)
    ELSE Then(Then(prompt_hash(seed, <<prompt_idx, FromNat(i)>>),
                   LAMBDA h :
                       Then(hash_to_index(h, Len(pools[IF i > 1 THEN i - 1 ELSE 1][2])),
                            LAMBDA at : Subscript(pools[i][2], at))),
              LAMBDA item : Components_previous_size(seed, prompt_idx, pools, i + 1,
                                                     DictSet(components, pools[i][1], item)))

\* the loop of generate_prompt: components[key] = the selected item, for the
\* pools from position i (1-based) on; coordinate i is enumerate's i + 1
RECURSIVE Components(_, _, _, _, _)
Components(seed, prompt_idx, pools, i, components) ==
    IF i > Len(pools) THEN Return(components)
    ELSE Then(Select(seed, prompt_idx, i, pools[i][2]),
              LAMBDA item : Components(seed, prompt_idx, pools, i + 1,
                                       DictSet(components, pools[i][1], item)))

\* the except KeyError branch: replace "{key}" for every key of pools, in order
RECURSIVE ReplaceKnown(_, _, _, _)
ReplaceKnown(template, pools, components, i) ==
    IF i > Len(pools) THEN template
    ELSE ReplaceKnown(
             Normalize(ReplaceField(template, pools[i][1],
                                    DictGet(components, pools[i][1],
                                            <<"[", pools[i][1], "]">>))),
             pools, components, i + 1)

\* lines 142-148: template.format(**components), or the partial replacement
FormatOrPartial(template, pools, components, formatted) ==
    IF formatted.exc = "KeyError"
    THEN Return(ReplaceKnown(template, pools, components, 1))
    ELSE formatted

\* lines 130-138 of generate_prompt: the template and the components it selects
Selections(seed, prompt_idx, profile) ==
    Then(Select(seed, prompt_idx, 0, profile.templates),
         LAMBDA template :
             Then(Components(seed, prompt_idx, profile.pools, 1, <<>>),
                  LAMBDA components :
                      Return([components |-> components, template |-> template])))

\* generate_prompt iterating the pools from the last declared to the first
generate_prompt_reversed_pools(seed, prompt_idx, profile) ==
    IF profile.kind # "object" THEN Raise("TypeError")
    ELSE IF {"templates", "pools"} \ profile.keys # {} THEN Raise("KeyError")
    ELSE Then(Select(seed, prompt_idx, 0, profile.templates),
              LAMBDA template :
                  Then(Components(seed, prompt_idx,
                                  [i \in 1..Len(profile.pools) |->
                                      profile.pools[Len(profile.pools) + 1 - i]],
                                  1, <<>>),
                       LAMBDA components :
                           FormatOrPartial(template, profile.pools, components,
                                           Format(template, components))))

generate_prompt(seed, prompt_idx, profile) ==
    IF profile.kind # "object" THEN Raise("TypeError")
    ELSE IF {"templates", "pools"} \ profile.keys # {} THEN Raise("KeyError")
    ELSE Then(Select(seed, prompt_idx, 0, profile.templates),
              LAMBDA template :
                  Then(Components(seed, prompt_idx, profile.pools, 1, <<>>),
                       LAMBDA components :
                           FormatOrPartial(template, profile.pools, components,
                                           Format(template, components))))

\* generate_prompt on the document a file text holds, tabulated once
generate_prompt_table ==
    [k \in Seeds \X Indices \X Sources |-> generate_prompt(k[1], k[2], Document(k[3]))]
    @@ <<>>

generate_prompt_of(seed, prompt_idx, text) ==
    generate_prompt_table[<<seed, prompt_idx, text>>]

----------------------------------------------------------------------------
(* DJZ_ZeroPrompt_V1.py: the built-in pools and templates                  *)

\* a list of strings that hold no brace and no bracket: one atom each
RECURSIVE Strs(_)
Strs(texts) ==
    IF Len(texts) = 0 THEN <<>> ELSE << <<Head(texts)>> >> \o Strs(Tail(texts))

\* the placeholder "{name}"
Field(name) == <<"{", name, "}">>

SUBJECTS ==
    Strs(<<
        "a woman", "a man", "a young woman", "a young man",
        "an elderly woman", "an elderly man", "a child", "a teenager",
        "a couple", "a group of people", "a knight", "a wizard", "a witch",
        "a sorceress", "a necromancer", "a paladin", "a rogue",
        "an assassin", "a ranger", "a barbarian", "a druid", "a monk",
        "a bard", "a warlock", "an elven archer", "a dwarven smith",
        "an orc warrior", "a goblin", "a fairy", "a nymph", "a cyborg",
        "an android", "a robot", "a mech pilot", "an astronaut",
        "a space marine", "an alien", "a hacker", "a scientist",
        "a bounty hunter", "a samurai", "a ninja", "a viking", "a gladiator",
        "a pharaoh", "a geisha", "a shogun", "a roman soldier",
        "a medieval peasant", "a noble", "a detective", "a soldier",
        "a pilot", "a doctor", "an artist", "a musician", "a dancer",
        "an athlete", "a chef", "a photographer", "a dragon", "a phoenix",
        "a griffin", "a unicorn", "a werewolf", "a vampire", "a demon",
        "an angel", "a ghost", "a spirit", "a wolf", "a lion", "a tiger",
        "an eagle", "a raven", "a serpent", "a whale", "a shark",
        "a butterfly", "a spider", "a mechanical spider",
        "a clockwork automaton", "a golem", "a sentient statue",
        "a living shadow", "an elemental being", "a slime creature",
        "a treant" >>)

\* ACTIONS (a reserved word here)
ACTIONS_V1 ==
    Strs(<<
        "standing in", "sitting in", "kneeling in", "floating above",
        "hovering over", "resting in", "meditating in", "posing in",
        "waiting in", "watching over", "walking through", "running through",
        "flying over", "swimming in", "climbing", "falling into",
        "descending into", "ascending toward", "emerging from",
        "diving into", "fighting in", "battling through", "defending",
        "attacking", "dueling in", "charging through", "retreating from",
        "ambushing in", "hunting in", "exploring", "discovering",
        "searching through", "investigating", "uncovering secrets in",
        "finding treasure in", "mapping", "summoning power in",
        "casting a spell in", "channeling energy in",
        "communing with nature in", "praying in", "performing a ritual in",
        "transforming in", "shapeshifting in", "awakening in", "mourning in",
        "celebrating in", "contemplating in", "dreaming in",
        "remembering in", "lost in thought in" >>)

ENVIRONMENTS ==
    Strs(<<
        "a dark forest", "an enchanted forest", "a misty forest",
        "a bamboo forest", "a snowy mountain", "a volcanic mountain",
        "a floating mountain", "a vast desert", "an oasis", "a canyon",
        "a waterfall", "a river", "a beach at sunset", "a stormy sea",
        "a coral reef", "an underwater cavern", "a medieval castle",
        "a ruined fortress", "a gothic cathedral", "an ancient temple",
        "a hidden shrine", "a sacred grove", "a wizard's tower",
        "an alchemist's laboratory", "a royal throne room", "a dungeon",
        "catacombs", "a crypt", "a graveyard at midnight",
        "a cyberpunk city", "a neon-lit alley", "a futuristic metropolis",
        "a space station", "an alien planet", "a terraformed moon",
        "a dystopian wasteland", "a post-apocalyptic city",
        "a megastructure", "a virtual reality world",
        "inside a computer mainframe", "a crystal cave",
        "a bioluminescent cavern", "a floating island", "the astral plane",
        "between dimensions", "the void", "a pocket dimension",
        "a mirror world", "a dream realm", "cherry blossom gardens",
        "an autumn forest", "a field of flowers",
        "under the northern lights", "during a solar eclipse",
        "at the edge of the world", "at the crossroads of fate" >>)

STYLES ==
    Strs(<<
        "photorealistic", "hyperrealistic", "cinematic", "film still",
        "documentary photography", "portrait photography",
        "fashion photography", "oil painting", "watercolor painting",
        "acrylic painting", "gouache", "charcoal drawing", "pencil sketch",
        "ink drawing", "fresco", "art nouveau", "art deco", "baroque",
        "renaissance", "romanticism", "impressionist", "expressionist",
        "surrealist", "cubist", "pre-raphaelite", "ukiyo-e",
        "chinese ink wash", "concept art", "digital painting",
        "matte painting", "3D render", "low poly 3D", "voxel art",
        "pixel art", "vector art", "anime style", "manga style",
        "studio ghibli style", "disney style", "pixar style",
        "cartoon style", "comic book style", "graphic novel style",
        "vaporwave aesthetic", "synthwave", "cyberpunk aesthetic",
        "solarpunk", "dark academia", "cottagecore", "steampunk",
        "dieselpunk", "biopunk", "dark souls style", "elden ring style",
        "final fantasy style", "metal gear style", "borderlands style",
        "breath of the wild style" >>)

LIGHTING ==
    Strs(<<
        "golden hour lighting", "blue hour lighting", "harsh midday sun",
        "soft overcast light", "dappled forest light", "sunset backlight",
        "sunrise light", "moonlight", "starlight", "dramatic rim lighting",
        "chiaroscuro lighting", "spotlight", "harsh shadows",
        "silhouette lighting", "contre-jour", "neon lighting",
        "fluorescent lighting", "candlelight", "firelight",
        "bioluminescent glow", "magical glow", "holographic light",
        "volumetric lighting", "god rays", "light shafts",
        "foggy atmosphere", "misty atmosphere", "dusty atmosphere",
        "rainy atmosphere", "warm lighting", "cool lighting",
        "neutral lighting", "high contrast", "low key lighting",
        "high key lighting" >>)

CAMERA ==
    Strs(<<
        "extreme close-up", "close-up portrait", "medium shot",
        "full body shot", "wide shot", "extreme wide shot",
        "establishing shot", "eye level", "low angle shot",
        "high angle shot", "bird's eye view", "worm's eye view",
        "dutch angle", "overhead shot", "first person view",
        "over the shoulder", "point of view shot", "three-quarter view",
        "profile view", "frontal view", "rear view",
        "shallow depth of field", "deep focus", "bokeh background",
        "motion blur", "long exposure", "tilt-shift", "fisheye lens",
        "wide angle lens", "telephoto compression", "macro shot" >>)

DETAILS ==
    Strs(<<
        "highly detailed", "intricate details", "fine details",
        "subtle details", "sharp focus", "crystal clear", "pristine quality",
        "4k", "8k", "high resolution", "ultra HD", "masterpiece",
        "award winning", "professional", "museum quality",
        "trending on artstation", "featured on behance", "gallery quality",
        "ray tracing", "global illumination", "subsurface scattering",
        "ambient occlusion", "realistic textures", "photogrammetry",
        "expressive brushwork", "visible brushstrokes", "smooth gradients",
        "rich colors", "vibrant palette", "muted tones", "monochromatic" >>)

MOOD ==
    Strs(<<
        "serene", "peaceful", "tranquil", "joyful", "euphoric", "whimsical",
        "playful", "romantic", "hopeful", "triumphant", "ominous",
        "foreboding", "melancholic", "sorrowful", "tragic", "terrifying",
        "horrific", "unsettling", "disturbing", "mysterious", "enigmatic",
        "surreal", "dreamlike", "ethereal", "nostalgic", "bittersweet",
        "contemplative", "introspective", "tense", "intense", "chaotic",
        "explosive", "dynamic", "calm", "still", "quiet", "subtle",
        "understated", "epic", "grand", "intimate", "cozy", "lonely",
        "isolated", "crowded", "bustling", "abandoned", "timeless" >>)

\* POOLS, in the order of the dict literal
POOLS ==
    << <<"subject", SUBJECTS>>,
       <<"action", ACTIONS_V1>>,
       <<"environment", ENVIRONMENTS>>,
       <<"style", STYLES>>,
       <<"lighting", LIGHTING>>,
       <<"camera", CAMERA>>,
       <<"details", DETAILS>>,
       <<"mood", MOOD>> >>

TEMPLATES ==
    <<
      Field("subject") \o <<" ">> \o Field("action") \o <<" ">> \o
      Field("environment") \o <<", ">> \o Field("style") \o <<", ">> \o
      Field("lighting") \o <<", ">> \o Field("camera") \o <<", ">> \o
      Field("details") \o <<", ">> \o Field("mood") \o <<" atmosphere">>,
      Field("camera") \o <<" of ">> \o Field("subject") \o <<" ">> \o
      Field("action") \o <<" ">> \o Field("environment") \o <<", ">> \o
      Field("style") \o <<", ">> \o Field("lighting") \o <<", ">> \o
      Field("details") \o <<", ">> \o Field("mood"),
      Field("style") \o <<" ">> \o Field("subject") \o <<", ">> \o
      Field("environment") \o <<", ">> \o Field("lighting") \o <<", ">> \o
      Field("mood") \o <<" mood, ">> \o Field("details"),
      Field("subject") \o <<" in ">> \o Field("environment") \o <<", ">> \o
      Field("mood") \o <<" ">> \o Field("style") \o <<", ">> \o
      Field("lighting") \o <<", ">> \o Field("camera") \o <<", ">> \o
      Field("details"),
      Field("mood") \o <<" scene of ">> \o Field("subject") \o <<" ">> \o
      Field("action") \o <<" ">> \o Field("environment") \o <<", ">> \o
      Field("style") \o <<", ">> \o Field("lighting") \o <<", ">> \o
      Field("details"),
      Field("style") \o <<" depicting ">> \o Field("subject") \o <<", ">> \o
      Field("environment") \o <<" setting, ">> \o Field("lighting") \o
      <<", ">> \o Field("camera"),
      Field("camera") \o <<", ">> \o Field("subject") \o <<" ">> \o
      Field("action") \o <<" ">> \o Field("environment") \o <<", ">> \o
      Field("style") \o <<", ">> \o Field("mood") \o <<", ">> \o
      Field("details"),
      Field("subject") \o <<", ">> \o Field("environment") \o <<", ">> \o
      Field("style") \o <<", ">> \o Field("lighting") \o <<", ">> \o
      Field("mood") \o <<" atmosphere, ">> \o Field("details")
    >>

\* the loop of V1's generate_prompt over POOLS.items(), from position i on
RECURSIVE ComponentsV1(_, _, _, _)
ComponentsV1(seed, prompt_idx, i, components) ==
    IF i > Len(POOLS) THEN Return(components)
    ELSE Then(Select(seed, prompt_idx, i, POOLS[i][2]),
              LAMBDA item : ComponentsV1(seed, prompt_idx, i + 1,
                                         DictSet(components, POOLS[i][1], item)))

\* V1's generate_prompt(seed, prompt_idx); its prompt_hash and hash_to_index
\* are the text of V2's
generate_prompt_V1(seed, prompt_idx) ==
    Then(Select(seed, prompt_idx, 0, TEMPLATES),
         LAMBDA template :
             Then(ComponentsV1(seed, prompt_idx, 1, <<>>),
                  LAMBDA components : Format(template, components)))

\* a V2 profile with V1's templates and pools, in V1's order
V1Profile == Object({"templates", "pools"}, TEMPLATES, POOLS)

----------------------------------------------------------------------------
(* Inputs of the calls                                                     *)

\* the profiles the node is asked for
ProfileNames == {"default.json", "apple.json"}

Prefixes == {<<>>, <<"pre ">>}
Suffixes == {<<>>, <<" suf">>}

\* number of writes to the profiles directory that are followed
MaxWrites == 1

\* the largest pool size hash_to_index is called with on its own
MaxPoolSize == 8

PoolSizes == 1..MaxPoolSize

\* 32-bit hash values: 0, 2^31 - 1, 2^31, 2^32 - 1 and the digests of the
\* seeds, indices and coordinates the node is called with
Hashes ==
    {FromNat(0), U32(32767, 65535), U32(32768, 0), U32(65535, 65535)}
    \cup {xxh32_intdigest(s, PackAll(<<i, FromNat(c)>>)) :
              s \in Seeds, i \in Indices, c \in Coordinates}

\* the collections generate_prompt selects from
Collections == {BaseTemplates, Subjects, Styles, Knights}

----------------------------------------------------------------------------
(* The outcome of the last call                                            *)

NoEntry == [id |-> 0, data |-> "absent"]

\* the threads that call generate on the one class-level cache
Threads == {1, 2}

\* a thread outside generate; inside it, pc is "load" (the cache test found
\* no entry), "store" (load_profile returned local) or "use" (line 230 is next)
Idle == [profile |-> "", at |-> 0, pc |-> "idle", local |-> NoEntry]

NoCall ==
    [seed |-> FromNat(0), exc |-> "none", val |-> <<>>, profile |-> "",
     op |-> "none", idx |-> FromNat(0), prefix |-> <<>>, suffix |-> <<>>,
     hit |-> FALSE, reads |-> 0, entry |-> NoEntry]

EmptyCache == [n \in {} |-> NoEntry]

CachePut(cache, name, entry) ==
    [n \in DOMAIN cache \cup {name} |-> IF n = name THEN entry ELSE cache[n]]

----------------------------------------------------------------------------
(* DJZZeroPromptV2                                                         *)

\* the exceptions generate's except clause names (JSONDecodeError is a ValueError)
CaughtByGenerate == {"FileNotFoundError", "ValueError", "JSONDecodeError"}

\* LoadStep without the test "profile not in self._profile_cache"
LoadStep_always_reload(cache, dir, id, profile) ==
    LET loaded == load_profile(dir, profile)
    IN  IF loaded.exc = "none"
        THEN [exc |-> "none", reads |-> 1,
              cache |-> CachePut(cache, profile, [id |-> id, data |-> dir[profile]])]
        ELSE [exc |-> loaded.exc, reads |-> 1, cache |-> cache]

\* LoadStep keeping an entry for a profile whose load failed
LoadStep_caches_failure(cache, dir, id, profile) ==
    IF profile \in DOMAIN cache
    THEN [exc |-> "none", reads |-> 0, cache |-> cache]
    ELSE [exc |-> load_profile(dir, profile).exc, reads |-> 1,
          cache |-> CachePut(cache, profile, [id |-> id, data |-> dir[profile]])]

\* "if profile not in self._profile_cache: ..." (lines 223-228): the cache it
\* leaves, the number of times it read the source, the exception of the load
LoadStep(cache, dir, id, profile) ==
    IF profile \in DOMAIN cache
    THEN [exc |-> "none", reads |-> 0, cache |-> cache]
    ELSE LET loaded == load_profile(dir, profile)
         IN  IF loaded.exc = "none"
             THEN [exc |-> "none", reads |-> 1,
                   cache |-> CachePut(cache, profile,
                                      [id |-> id, data |-> dir[profile]])]
             ELSE [exc |-> loaded.exc, reads |-> 1, cache |-> cache]

\* the message generate returns for a load error it catches
LoadErrorPrompt(dir, profile) ==
    <<"[", "Error loading profile '" \o profile \o "': "
             \o load_error_text(dir, profile), "]">>

\* ApplyAffixes with the test "if prefix:" for "if prefix or suffix:"
ApplyAffixes_prefix_only(prompt, prefix, suffix) ==
    IF prefix # <<>>
    THEN Concat(Concat(prefix, prompt), suffix)
    ELSE prompt

\* lines 235-239: the prefix and the suffix
ApplyAffixes(prompt, prefix, suffix) ==
    IF prefix # <<>> \/ suffix # <<>>
    THEN Concat(Concat(prefix, prompt), suffix)
    ELSE prompt

\* what generate returns or raises after its load step
GenerateOutcome(step, dir, profile, seed, prompt_index, prefix, suffix) ==
    IF step.exc \in CaughtByGenerate THEN Return(LoadErrorPrompt(dir, profile))
    ELSE IF step.exc # "none" THEN Raise(step.exc)
    ELSE Then(generate_prompt_of(seed, prompt_index, step.cache[profile].data),
              LAMBDA prompt : Return(ApplyAffixes(prompt, prefix, suffix)))

\* the state generate leaves, given its load step and its outcome
GenerateEffect(profile, seed, prompt_index, prefix, suffix, step, out) ==
    /\ _profile_cache' = step.cache
    /\ nextId' = IF profile \in DOMAIN step.cache \ DOMAIN _profile_cache
                 THEN nextId + 1 ELSE nextId
    /\ loadedAt' = IF profile \in DOMAIN step.cache \ DOMAIN _profile_cache
                   THEN [loadedAt EXCEPT ![profile] = mtime[profile]]
                   ELSE loadedAt
    /\ ret' = [seed |-> seed, exc |-> out.exc, val |-> out.val,
               profile |-> profile, op |-> "generate",
               idx |-> prompt_index, prefix |-> prefix, suffix |-> suffix,
               hit |-> profile \in DOMAIN _profile_cache,
               reads |-> step.reads,
               entry |-> IF profile \in DOMAIN step.cache
                         THEN step.cache[profile] ELSE NoEntry]
    /\ UNCHANGED <<files, mtime, clock, dirExists, memo, calls>>

GenerateFrom(profile, seed, prompt_index, prefix, suffix, step) ==
    GenerateEffect(profile, seed, prompt_index, prefix, suffix, step,
                   GenerateOutcome(step, files, profile, seed, prompt_index,
                                   prefix, suffix))

Generate(profile, seed, prompt_index, prefix, suffix) ==
    GenerateFrom(profile, seed, prompt_index, prefix, suffix,
                 LoadStep(_profile_cache, files, nextId, profile))

\* generate, one step of one thread at a time.  Line 223: the cache test.
BeginGenerate(t, profile) ==
    /\ calls[t].pc = "idle"
    /\ calls' = [calls EXCEPT ![t] =
                    [Idle EXCEPT !.pc = IF profile \in DOMAIN _profile_cache
                                       THEN "use" ELSE "load",
                                 !.profile = profile]]
    /\ UNCHANGED <<files, mtime, clock, dirExists, _profile_cache, nextId,
                   loadedAt, ret, memo>>

\* line 225, right-hand side: load_profile returns a new dict or raises, and
\* generate returns the error message or lets the exception pass (226-228)
LoadedBy(t, profile, loaded) ==
    /\ calls' = [calls EXCEPT ![t] =
                    IF loaded.exc = "none"
                    THEN [profile |-> profile, at |-> mtime[profile],
                          pc |-> "store",
                          local |-> [id |-> nextId, data |-> files[profile]]]
                    ELSE Idle]
    /\ nextId' = IF loaded.exc = "none" THEN nextId + 1 ELSE nextId
    /\ ret' = IF loaded.exc = "none" THEN ret
              ELSE [NoCall EXCEPT
                      !.op = "generate", !.profile = profile, !.reads = 1,
                      !.exc = IF loaded.exc \in CaughtByGenerate
                              THEN "none" ELSE loaded.exc,
                      !.val = IF loaded.exc \in CaughtByGenerate
                              THEN LoadErrorPrompt(files, profile) ELSE <<>>]
    /\ UNCHANGED <<files, mtime, clock, dirExists, _profile_cache, loadedAt, memo>>

LoadProfile(t) ==
    /\ calls[t].pc = "load"
    /\ LoadedBy(t, calls[t].profile, load_profile(files, calls[t].profile))

\* line 225, the assignment: self._profile_cache[profile] = the loaded dict
StoreProfile(t) ==
    /\ calls[t].pc = "store"
    /\ _profile_cache' = CachePut(_profile_cache, calls[t].profile, calls[t].local)
    /\ loadedAt' = [loadedAt EXCEPT ![calls[t].profile] = calls[t].at]
    /\ calls' = [calls EXCEPT ![t].pc = "use"]
    /\ UNCHANGED <<files, mtime, clock, dirExists, nextId, ret, memo>>

\* lines 230-239: the entry is read from the cache and the prompt generated
UsedBy(t, profile, entry, out) ==
    /\ ret' = [NoCall EXCEPT
                 !.op = "generate", !.profile = profile,
                 !.exc = out.exc, !.val = out.val,
                 !.hit = (calls[t].local = NoEntry),
                 !.reads = IF calls[t].local = NoEntry THEN 0 ELSE 1,
                 !.entry = entry]
    /\ calls' = [calls EXCEPT ![t] = Idle]
    /\ UNCHANGED <<files, mtime, clock, dirExists, _profile_cache, nextId,
                   loadedAt, memo>>

UseProfile(t) ==
    /\ calls[t].pc = "use"
    /\ UsedBy(t, calls[t].profile, _profile_cache[calls[t].profile],
              generate_prompt_of(FromNat(0), FromNat(0),
                                 _profile_cache[calls[t].profile].data))

\* the statistics get_info reports
ProfileStatistics(profile_data) ==
    [templates |-> Len(GetTemplates(profile_data)),
     pools |-> [i \in 1..Len(GetPools(profile_data)) |->
                  <<GetPools(profile_data)[i][1], Len(GetPools(profile_data)[i][2])>>],
     total |-> calculate_combinations(profile_data)]

GetInfoFrom(profile, loaded) ==
    /\ ret' = [NoCall EXCEPT
                 !.op = "get_info", !.profile = profile, !.reads = 1,
                 !.val = IF loaded.exc # "none"
                         THEN <<"Error loading profile: "
                                  \o load_error_text(files, profile)>>
                         ELSE ProfileStatistics(loaded.val),
                 !.entry = IF loaded.exc # "none" THEN NoEntry
                           ELSE [id |-> 0, data |-> files[profile]]]
    /\ UNCHANGED <<files, mtime, clock, dirExists, _profile_cache, nextId,
                   loadedAt, memo, calls>>

\* DJZZeroPromptProfileInfo.get_info: loads without the cache
GetInfo(profile) == GetInfoFrom(profile, load_profile(files, profile))

\* DJZZeroPromptProfileInfo.IS_CHANGED: the file's st_mtime, 0 without a file
ProfileInfo_IS_CHANGED(profile) ==
    IF files[profile] # "absent" THEN mtime[profile] ELSE 0

\* the environment saves a profile file
WriteProfile(name, source) ==
    /\ dirExists
    /\ clock < MaxWrites
    /\ files' = [files EXCEPT ![name] = source]
    /\ clock' = clock + 1
    /\ mtime' = [mtime EXCEPT ![name] = clock + 1]
    /\ ret' = [NoCall EXCEPT !.op = "write", !.profile = name]
    /\ UNCHANGED <<dirExists, _profile_cache, nextId, loadedAt, memo, calls>>

\* INPUT_TYPES: discover_profiles(), which makes a missing directory
DiscoverProfiles ==
    \E globbed \in GlobOrders(files) :
        /\ ret' = [NoCall EXCEPT !.op = "discover_profiles", !.hit = dirExists,
                                 !.val = discover_profiles(dirExists, files, globbed)]
        /\ dirExists' = TRUE
        /\ UNCHANGED <<files, mtime, clock, _profile_cache, nextId, loadedAt, memo, calls>>

\* __main__ (lines 366-376): generate_prompt on a loaded profile; memo keeps
\* an earlier call of any age
RecordCall(seed, prompt_idx, text, out) ==
    /\ ret' = [NoCall EXCEPT !.op = "generate_prompt", !.seed = seed,
                             !.idx = prompt_idx, !.exc = out.exc, !.val = out.val,
                             !.entry = [id |-> 0, data |-> text]]
    /\ memo' \in {memo, ret}
    /\ UNCHANGED <<files, mtime, clock, dirExists, _profile_cache, nextId,
                   loadedAt, calls>>

CallGeneratePrompt(seed, prompt_idx, text) ==
    RecordCall(seed, prompt_idx, text, generate_prompt_of(seed, prompt_idx, text))

\* hash_to_index called on its own
RecordIndex(h, pool_size, out) ==
    /\ ret' = [NoCall EXCEPT !.op = "hash_to_index", !.exc = out.exc,
                             !.val = [h |-> h, pool_size |-> pool_size,
                                      index |-> out.val]]
    /\ UNCHANGED <<files, mtime, clock, dirExists, _profile_cache, nextId,
                   loadedAt, memo, calls>>

CallHashToIndex(h, pool_size) == RecordIndex(h, pool_size, hash_to_index(h, pool_size))

\* one selection of generate_prompt (lines 131-138) on its own
RecordSelect(seed, prompt_idx, coord, pool, out) ==
    /\ ret' = [NoCall EXCEPT !.op = "select", !.seed = seed, !.idx = prompt_idx,
                             !.exc = out.exc,
                             !.val = [coord |-> coord, pool |-> pool,
                                      item |-> out.val]]
    /\ UNCHANGED <<files, mtime, clock, dirExists, _profile_cache, nextId,
                   loadedAt, memo, calls>>

CallSelect(seed, prompt_idx, coord, pool) ==
    RecordSelect(seed, prompt_idx, coord, pool, Select(seed, prompt_idx, coord, pool))

\* the pools with the pool at position p replaced, its name and position kept
ReplacePool(pools, p, pool) ==
    SubSeq(pools, 1, p - 1) \o << <<pools[p][1], pool>> >>
        \o SubSeq(pools, p + 1, Len(pools))

\* the selections of generate_prompt on a profile, and on the profile edited
\* to hold another pool at position p
RecordSelections(seed, prompt_idx, p, pool, before, after) ==
    /\ ret' = [NoCall EXCEPT !.op = "selections", !.seed = seed, !.idx = prompt_idx,
                             !.val = [pool |-> pool, before |-> before,
                                      after |-> after, slot |-> p]]
    /\ UNCHANGED <<files, mtime, clock, dirExists, _profile_cache, nextId,
                   loadedAt, memo, calls>>

CallSelections(seed, prompt_idx, p, pool) ==
    RecordSelections(seed, prompt_idx, p, pool,
                     Selections(seed, prompt_idx, V1Profile),
                     Selections(seed, prompt_idx,
                                Object({"templates", "pools"}, TEMPLATES,
                                       ReplacePool(POOLS, p, pool))))

\* V1's generate_prompt and V2's on V1's vocabulary, for the same arguments
RecordBoth(seed, prompt_idx, v1, v2) ==
    /\ ret' = [NoCall EXCEPT !.op = "compare", !.seed = seed, !.idx = prompt_idx,
                             !.val = [v1 |-> v1, v2 |-> v2]]
    /\ UNCHANGED <<files, mtime, clock, dirExists, _profile_cache, nextId,
                   loadedAt, memo, calls>>

CallBoth(seed, prompt_idx) ==
    RecordBoth(seed, prompt_idx, generate_prompt_V1(seed, prompt_idx),
               generate_prompt(seed, prompt_idx, V1Profile))

\* the file texts load_profile returns a profile for
Loadable == {t \in Sources : load_profile([n \in {"f"} |-> t], "f").exc = "none"}

----------------------------------------------------------------------------
Init ==
    /\ files = [n \in AllNames |-> IF n = "default.json" THEN "base" ELSE "absent"]
    /\ mtime = [n \in AllNames |-> 0]
    /\ clock = 0
    /\ dirExists = TRUE
    /\ _profile_cache = EmptyCache
    /\ nextId = 1
    /\ loadedAt = [n \in AllNames |-> 0]
    /\ ret = NoCall
    /\ memo = NoCall
    /\ calls = [t \in Threads |-> Idle]

Next ==
    \/ \E p \in ProfileNames, s \in Seeds, i \in Indices,
          pre \in Prefixes, suf \in Suffixes : Generate(p, s, i, pre, suf)
    \/ \E p \in ProfileNames : GetInfo(p)
    \/ \E p \in ProfileNames, src \in Sources : WriteProfile(p, src)
    \/ DiscoverProfiles

Spec == Init /\ [][Next]_vars

\* the standalone harness: generate_prompt called on loaded profiles
NextPure ==
    \E s \in Seeds, i \in Indices, t \in Loadable : CallGeneratePrompt(s, i, t)

SpecPure == Init /\ [][NextPure]_vars

\* discovery over any content of the profiles directory
InitDiscover ==
    /\ dirExists \in BOOLEAN
    /\ files \in IF dirExists THEN [AllNames -> {"absent", "base", "dir"}]
                 ELSE {[n \in AllNames |-> "absent"]}
    /\ mtime = [n \in AllNames |-> 0]
    /\ clock = 0
    /\ _profile_cache = EmptyCache
    /\ nextId = 1
    /\ loadedAt = [n \in AllNames |-> 0]
    /\ ret = NoCall
    /\ memo = NoCall
    /\ calls = [t \in Threads |-> Idle]

NextDiscover == DiscoverProfiles

SpecDiscover == InitDiscover /\ [][NextDiscover]_vars

\* index mapping and selection on their own
NextIndex ==
    \/ \E h \in Hashes, n \in PoolSizes : CallHashToIndex(h, n)
    \/ \E s \in Seeds, i \in {j \in Indices : InIntRange(j)},
          c \in Coordinates, pool \in Collections : CallSelect(s, i, c, pool)

SpecIndex == Init /\ [][NextIndex]_vars

\* the two generators side by side
NextBoth == \E s \in WideSeeds, i \in WideIndices : CallBoth(s, i)

SpecBoth == Init /\ [][NextBoth]_vars

\* generate called from several threads, and a profile file saved meanwhile
NextThreads ==
    \/ \E t \in Threads, p \in ProfileNames : BeginGenerate(t, p)
    \/ \E t \in Threads : LoadProfile(t)
    \/ \E t \in Threads : StoreProfile(t)
    \/ \E t \in Threads : UseProfile(t)
    \/ \E p \in ProfileNames, src \in {"alt", "bad_json"} : WriteProfile(p, src)

SpecThreads == Init /\ [][NextThreads]_vars

\* the selections before and after one pool of the profile is edited
NextSlots ==
    \E s \in Seeds, i \in {j \in WideIndices : InIntRange(j)},
       p \in 1..Len(POOLS), pool \in {Knights, Subjects, Styles} :
        CallSelections(s, i, p, pool)

SpecSlots == Init /\ [][NextSlots]_vars

----------------------------------------------------------------------------
(* Properties                                                              *)

\* the slot names a template references: the text between "{" and "}"
FieldsOf(template) ==
    {template[i + 1] : i \in {j \in 1..(Len(template) - 2) :
                                  template[j] = "{" /\ template[j + 2] = "}"}}

PoolKeys(doc) == {doc.pools[i][1] : i \in 1..Len(doc.pools)}

\* templates, pools and every pool are non-empty
NonEmptyConfiguration(doc) ==
    /\ doc.kind = "object"
    /\ {"templates", "pools"} \subseteq doc.keys
    /\ Len(doc.templates) > 0
    /\ Len(doc.pools) > 0
    /\ \A i \in 1..Len(doc.pools) : Len(doc.pools[i][2]) > 0

\* non-empty, and every placeholder of every template is a declared slot
ValidConfiguration(doc) ==
    /\ NonEmptyConfiguration(doc)
    /\ \A i \in 1..Len(doc.templates) : FieldsOf(doc.templates[i]) \subseteq PoolKeys(doc)

\* the string s holds the marker "[slot]"
HasMarker(s, slot) ==
    \E i \in 1..(Len(s) - 2) : s[i] = "[" /\ s[i + 1] = slot /\ s[i + 2] = "]"

SameInputs(a, b) ==
    /\ a.op = "generate_prompt" /\ b.op = "generate_prompt"
    /\ a.seed = b.seed /\ a.idx = b.idx /\ a.entry.data = b.entry.data

GenerationInfallible ==
    (/\ ret.op = "generate"
     /\ ret.entry # NoEntry
     /\ ValidConfiguration(Document(ret.entry.data)))
    => ret.exc = "none"

\* the template generate_prompt chose in the last call of generate
ChosenTemplate ==
    Select(ret.seed, ret.idx, 0, Document(ret.entry.data).templates)

\* C3: when the chosen template references a slot no pool declares,
\* generate_prompt does not raise and its result shows the slot as the
\* marker [slotname] (the index being one struct.pack accepts).
DegradationMarker ==
    (/\ ret.op = "generate"
     /\ ret.entry # NoEntry
     /\ InIntRange(ret.idx)
     /\ ChosenTemplate.exc = "none")
    => \A slot \in FieldsOf(ChosenTemplate.val) \ PoolKeys(Document(ret.entry.data)) :
           ret.exc = "none" /\ HasMarker(ret.val, slot)

\* the source is a JSON object that lacks templates or pools or has an
\* empty templates list, an empty pools mapping or an empty pool
LacksOrEmpty(text) ==
    Document(text).kind = "object" /\ ~NonEmptyConfiguration(Document(text))

\* C4: load_profile fails for a source that lacks templates or pools or has
\* an empty templates list, empty pools or an empty pool, so that every
\* cache entry has non-empty templates and only non-empty pools.
LoadValidation ==
    /\ (ret.op = "generate" /\ ~ret.hit /\ LacksOrEmpty(files[ret.profile]))
           => (ret.exc = "none" /\ ret.val = LoadErrorPrompt(files, ret.profile)
               /\ ret.profile \notin DOMAIN _profile_cache)
    /\ \A p \in DOMAIN _profile_cache :
           NonEmptyConfiguration(Document(_profile_cache[p].data))

\* C5: after a generate call for a cached identifier, the entry is no older
\* than the source: a source modified since the load has been reloaded and
\* the prompt is generated from its new content.
FreshnessInvalidation ==
    (ret.op = "generate" /\ ret.profile \in DOMAIN _profile_cache)
    => (/\ loadedAt[ret.profile] >= ProfileInfo_IS_CHANGED(ret.profile)
        /\ ret.entry.data = files[ret.profile])

\* C6: a generate call for an identifier already in the cache reads the
\* source no second time, uses the very structure the first load put in
\* the cache and leaves that entry in place.
CacheCorrectness ==
    [][\A p \in DOMAIN _profile_cache :
          (ret'.op = "generate" /\ ret'.profile = p)
          => (/\ ret'.reads = 0
              /\ ret'.entry = _profile_cache[p]
              /\ p \in DOMAIN _profile_cache'
              /\ _profile_cache'[p] = _profile_cache[p])]_vars

\* a second generate call for default.json is served from the cache
CacheCorrectnessWitness ==
    /\ ret.op = "generate"
    /\ ret.profile = "default.json"
    /\ ret.hit
    /\ ret.reads = 0
    /\ ret.exc = "none"
    /\ ret.entry.id = 1

\* C7: whenever the load of a configuration fails, generate returns the
\* error message naming the identifier and the violated precondition; it
\* returns no prompt and lets no exception escape.
LoadErrorsSurfaced ==
    (/\ ret.op = "generate"
     /\ ~ret.hit
     /\ load_profile(files, ret.profile).exc # "none")
    => (ret.exc = "none" /\ ret.val = LoadErrorPrompt(files, ret.profile))

\* the configuration sources of the directory: the regular files *.json
SourcesPresent == {n \in AllNames : IsFile(files, n) /\ MatchesJson(n)}

\* C8: discover_profiles returns each source name exactly once, default.json
\* first when it is present, the other names in ascending order.
DiscoveryOrdering ==
    (ret.op = "discover_profiles" /\ SourcesPresent # {})
    => (/\ {ret.val[i] : i \in 1..Len(ret.val)} = SourcesPresent
        /\ Len(ret.val) = Cardinality(SourcesPresent)
        /\ "default.json" \in SourcesPresent => ret.val[1] = "default.json"
        /\ \A i, j \in 1..Len(ret.val) :
               (i < j /\ ret.val[i] # "default.json" /\ ret.val[j] # "default.json")
               => StrLess(ret.val[i], ret.val[j]))

\* the sources {zebra.json, default.json, apple.json} are discovered in order
DiscoveryOrderingWitness ==
    /\ ret.op = "discover_profiles"
    /\ SourcesPresent = {"zebra.json", "default.json", "apple.json"}
    /\ ret.val = <<"default.json", "apple.json", "zebra.json">>

\* C9: discover_profiles never returns an empty list; without the directory
\* or without a source in it, it returns ["default.json"].
DiscoveryFallback ==
    ret.op = "discover_profiles"
    => (/\ Len(ret.val) > 0
        /\ (~ret.hit \/ SourcesPresent = {}) => ret.val = <<"default.json">>)

\* the directory exists and holds a text file and a directory named zebra.json
DiscoveryFallbackWitness ==
    /\ ret.op = "discover_profiles"
    /\ ret.hit
    /\ SourcesPresent = {}
    /\ files["notes.txt"] = "base"
    /\ files["zebra.json"] = "dir"
    /\ ret.val = <<"default.json">>

\* the length of the longest pool
RECURSIVE LongestPool(_)
LongestPool(pools) ==
    IF Len(pools) = 0 THEN 0
    ELSE IF Len(Head(pools)[2]) > LongestPool(Tail(pools))
         THEN Len(Head(pools)[2]) ELSE LongestPool(Tail(pools))

\* the prompts a configuration can assemble: a template and one item of every pool
Combinations(doc) ==
    (1..Len(doc.templates))
    \X {c \in [1..Len(doc.pools) -> 1..LongestPool(doc.pools)] :
            \A i \in 1..Len(doc.pools) : c[i] <= Len(doc.pools[i][2])}

\* C10: the total get_info reports (calculate_combinations) is the number of
\* ways to choose one template and one item of every pool: the exact product
\* of the number of templates and every pool's size.
CombinationCount ==
    (ret.op = "get_info" /\ ret.entry # NoEntry)
    => ret.val.total = Cardinality(Combinations(Document(ret.entry.data)))

\* 2 templates and pools of sizes 3 and 4 give 24
CombinationCountWitness ==
    /\ ret.op = "get_info"
    /\ ret.entry # NoEntry
    /\ ret.val.templates = 2
    /\ ret.val.pools = << <<"subject", 3>>, <<"style", 4>> >>
    /\ ret.val.total = 24

\* h mod n for a 32-bit h, split at 2^31: 2^31 = (2^31 - 1) + 1
Remainder(h, n) ==
    IF h.hi < 32768 THEN (h.hi * W16 + h.lo) % n
    ELSE ((((h.hi - 32768) * W16 + h.lo) % n) + (2147483647 % n) + 1) % n

\* C11: for every 32-bit hash and every positive pool size hash_to_index
\* returns hash mod pool_size, a number of 0..pool_size-1; the template and
\* the slot values generate_prompt selects are elements of their collections.
RangeSafety ==
    /\ ret.op = "hash_to_index"
           => (/\ ret.exc = "none"
               /\ ret.val.index \in 0..(ret.val.pool_size - 1)
               /\ ret.val.index = Remainder(ret.val.h, ret.val.pool_size))
    /\ ret.op = "select"
           => (/\ ret.exc = "none"
               /\ \E k \in 1..Len(ret.val.pool) : ret.val.item = ret.val.pool[k])

\* 2^32 - 1 with a pool of 7 gives index 3
RangeSafetyWitness ==
    /\ ret.op = "hash_to_index"
    /\ ret.val.h = U32(65535, 65535)
    /\ ret.val.pool_size = 7
    /\ ret.val.index = 3

\* the last call of generate loaded or found its profile and assembled a prompt
Assembled ==
    /\ ret.op = "generate"
    /\ ret.entry # NoEntry
    /\ generate_prompt_of(ret.seed, ret.idx, ret.entry.data).exc = "none"

\* C12: generate returns exactly prefix + assembled prompt + suffix, nothing
\* added between them; with both empty it returns the assembled prompt.
PrefixSuffix ==
    Assembled
    => (/\ ret.exc = "none"
        /\ ret.val = Normalize(ret.prefix
                               \o generate_prompt_of(ret.seed, ret.idx,
                                                     ret.entry.data).val
                               \o ret.suffix)
        /\ (ret.prefix = <<>> /\ ret.suffix = <<>>)
               => ret.val = generate_prompt_of(ret.seed, ret.idx, ret.entry.data).val)

\* a suffix without a prefix is appended to the prompt of seed 0, index 0
PrefixSuffixWitness ==
    /\ Assembled
    /\ ret.prefix = <<>>
    /\ ret.suffix = <<" suf">>
    /\ ret.val = <<"photo of a dog suf">>

\* C13: on a profile whose templates and pools are V1's TEMPLATES and POOLS
\* (same names, order and items) V2's generate_prompt returns the string V1's
\* returns for the same seed and index (an index struct.pack refuses
\* raises the same exception in both).
BackwardCompatible ==
    ret.op = "compare"
    => (/\ ret.val.v2 = ret.val.v1
        /\ InIntRange(ret.idx) => ret.val.v1.exc = "none")

\* seed 42, index 0: the prompt V1 prints for them
BackwardCompatibleWitness ==
    /\ ret.op = "compare"
    /\ ret.seed = FromNat(42)
    /\ ret.idx = FromNat(0)
    /\ ret.val.v2 = Return(<<"a dwarven smith, the astral plane, hyperrealistic, "
                               \o "blue hour lighting, intense atmosphere, "
                               \o "intricate details">>)

\* list[hash(seed, [index, coord]) mod len(list)]
AtCoordinate(seed, index, coord, list) ==
    list[Remainder(xxh32_intdigest(seed, PackAll(<<index, FromNat(coord)>>)),
                   Len(list)) + 1]

\* the selections are made at the coordinates (index, 0) for the template and
\* (index, p + 1) for the slot at 0-based position p (here q = p + 1)
SelectedAtCoordinates(seed, index, templates, pools, sel) ==
    /\ sel.exc = "none"
    /\ sel.val.template = AtCoordinate(seed, index, 0, templates)
    /\ Len(sel.val.components) = Len(pools)
    /\ \A q \in 1..Len(pools) :
           sel.val.components[q] = <<pools[q][1], AtCoordinate(seed, index, q, pools[q][2])>>

\* C14: the template is templates[hash(seed, [index, 0]) mod len(templates)]
\* and the value of the slot at position p is pool[hash(seed, [index, p+1])
\* mod len(pool)]; the packed coordinates are pairwise distinct; replacing one
\* slot's pool changes neither the template nor another slot's value.
CoordinateIndependence ==
    ret.op = "selections"
    => (/\ SelectedAtCoordinates(ret.seed, ret.idx, TEMPLATES, POOLS, ret.val.before)
        /\ SelectedAtCoordinates(ret.seed, ret.idx, TEMPLATES,
                                 ReplacePool(POOLS, ret.val.slot, ret.val.pool),
                                 ret.val.after)
        /\ \A a, b \in 0..Len(POOLS) :
               a # b => PackAll(<<ret.idx, FromNat(a)>>) # PackAll(<<ret.idx, FromNat(b)>>)
        /\ ret.val.after.val.template = ret.val.before.val.template
        /\ \A q \in 1..Len(POOLS) :
               q # ret.val.slot
               => ret.val.after.val.components[q] = ret.val.before.val.components[q])

\* the pool of the first slot is replaced: its value changes, the template
\* and the value of the second slot stay
CoordinateIndependenceWitness ==
    /\ ret.op = "selections"
    /\ ret.val.slot = 1
    /\ ret.val.pool = Knights
    /\ ret.val.before.exc = "none"
    /\ ret.val.after.exc = "none"
    /\ ret.val.after.val.components[1] # ret.val.before.val.components[1]
    /\ ret.val.after.val.components[2] = ret.val.before.val.components[2]
    /\ ret.val.after.val.template = ret.val.before.val.template

\* C15: under every interleaving of generate calls, an identifier that has a
\* cache entry keeps that very entry: no step replaces it by another dict.
CacheEntriesImmutable ==
    [][\A p \in DOMAIN _profile_cache :
          /\ p \in DOMAIN _profile_cache'
          /\ _profile_cache'[p] = _profile_cache[p]]_vars

\* C16: a generate call whose load fails leaves the cache as it was, with no
\* entry for the identifier; a call for an identifier without an entry reads
\* the source (again), and caches it when the source is valid by then.
FailedLoadLeavesCache ==
    [][ret'.op = "generate"
       => (/\ (~ret'.hit /\ load_profile(files, ret'.profile).exc # "none")
                  => (/\ _profile_cache' = _profile_cache
                      /\ ret'.profile \notin DOMAIN _profile_cache'
                      /\ ret'.entry = NoEntry)
           /\ ret'.profile \notin DOMAIN _profile_cache
                  => (/\ ret'.reads = 1
                      /\ load_profile(files, ret'.profile).exc = "none"
                             => (/\ ret'.profile \in DOMAIN _profile_cache'
                                 /\ _profile_cache'[ret'.profile].data
                                        = files[ret'.profile]
                                 /\ ret'.entry = _profile_cache'[ret'.profile])))]_vars

\* the load of apple.json fails (its file is not JSON) while default.json is
\* cached: the error message is returned and the cache holds default.json only
FailedLoadLeavesCacheWitness ==
    /\ ret.op = "generate"
    /\ ret.profile = "apple.json"
    /\ files["apple.json"] = "bad_json"
    /\ ret.val = LoadErrorPrompt(files, "apple.json")
    /\ DOMAIN _profile_cache = {"default.json"}
====
